---- MODULE Spec2Model ----
(***************************************************************************)
(* Model of src/src/todo.py: a todo list kept in one JSON file.            *)
(*                                                                         *)
(* The file is a sequence of bytes.  Text (str) is a sequence of Unicode   *)
(* code points.  A Python value is a record [t, n, s, items]:              *)
(*   t = "None" | "bool" | "int" | "str" | "list" | "dict" | "item"        *)
(*   n      the number of an int, 1/0 of a bool                            *)
(*   s      the text of a str, the key of a dict item                      *)
(*   items  the elements of a list, the items of a dict (insertion order), *)
(*          the one value of a dict item                                   *)
(* Not modelled: floats, NaN/Infinity, surrogate pairs in \u escapes, the  *)
(* repr() of containers, and text holding lone surrogates.                 *)
(***************************************************************************)
EXTENDS Integers, Sequences, FiniteSets, TLC

VARIABLES
    file,       \* the tasks file: [exists, bytes, writable]
    pre,        \* the tasks file as it was when the last operation started
    stored,     \* what load_tasks gives on the file as it is now: [exc, v]
    before,     \* what load_tasks gave on the file when the last operation started
    op,         \* the last operation and its arguments: [name, id, title, desc]
    out,        \* the lines the last operation printed
    exc,        \* the exception the last operation raised, "none" if it returned
    ret,        \* the value the last load_tasks call returned to its caller
    arg,        \* the collection a direct caller of save_tasks holds, None otherwise
    assigned,   \* task['id'] of the last add_task, 0 before any
    saves,      \* how many times the last operation ran save_tasks
    nAdds,      \* add_task calls that returned since the start
    fromEmpty,  \* the run started from a missing or an empty store
    procs       \* processes that run one operation each on the same file, each
                \* [pc, call, now, loaded, after, order, assigned]

vars == <<file, pre, stored, before, op, out, exc, ret, arg, assigned, saves, nAdds,
          fromEmpty, procs>>

-----------------------------------------------------------------------------
(* Python values *)

PyVal(t, n, s, items) == [t |-> t, n |-> n, s |-> s, items |-> items]
PyNone == PyVal("None", 0, <<>>, <<>>)
PyBool(b) == PyVal("bool", IF b THEN 1 ELSE 0, <<>>, <<>>)
PyInt(n) == PyVal("int", n, <<>>, <<>>)
PyStr(s) == PyVal("str", 0, s, <<>>)
PyList(items) == PyVal("list", 0, <<>>, items)
PyDict(items) == PyVal("dict", 0, <<>>, items)
PyItem(k, v) == PyVal("item", 0, k, <<v>>)

IsNumber(v) == v.t \in {"int", "bool"}

\* a == b of Python, on the values of the model (True == 1, False == 0)
PyEq(a, b) ==
    IF IsNumber(a) /\ IsNumber(b) THEN a.n = b.n
    ELSE a = b

\* bool(v) of Python
Truthy(v) ==
    CASE v.t = "None" -> FALSE
      [] v.t \in {"int", "bool"} -> v.n # 0
      [] v.t = "str" -> v.s # <<>>
      [] v.t \in {"list", "dict"} -> v.items # <<>>

\* the position of key k in dict d, 0 if absent
KeyIndex(d, k) ==
    LET hits == {i \in 1..Len(d.items) : d.items[i].s = k}
    IN  IF hits = {} THEN 0 ELSE CHOOSE i \in hits : TRUE

\* d.get(k, default)
DictGet(d, k, default) ==
    LET i == KeyIndex(d, k)
    IN  IF i = 0 THEN default ELSE d.items[i].items[1]

\* d[k] = v: an existing key keeps its place, a new key goes last
DictSet(d, k, v) ==
    LET i == KeyIndex(d, k)
    IN  IF i = 0 THEN PyDict(Append(d.items, PyItem(k, v)))
        ELSE PyDict([d.items EXCEPT ![i] = PyItem(k, v)])

-----------------------------------------------------------------------------
(* Text constants, as code points *)

K_id == <<105, 100>>
K_title == <<116, 105, 116, 108, 101>>
K_description == <<100, 101, 115, 99, 114, 105, 112, 116, 105, 111, 110>>
K_created_at == <<99, 114, 101, 97, 116, 101, 100, 95, 97, 116>>
K_done == <<100, 111, 110, 101>>

T_true == <<116, 114, 117, 101>>
T_false == <<102, 97, 108, 115, 101>>
T_null == <<110, 117, 108, 108>>

RECURSIVE IntStrNat(_)
IntStrNat(n) ==
    IF n < 10 THEN <<48 + n>> ELSE Append(IntStrNat(n \div 10), 48 + (n % 10))

\* str(n) of an int, which is also how json writes it
IntStr(n) == IF n < 0 THEN <<45>> \o IntStrNat(0 - n) ELSE IntStrNat(n)

-----------------------------------------------------------------------------
(* UTF-8, the encoding both open() calls name *)

Utf8Char(c) ==
    IF c < 128 THEN <<c>>
    ELSE IF c < 2048 THEN <<192 + (c \div 64), 128 + (c % 64)>>
    ELSE IF c < 65536 THEN
        <<224 + (c \div 4096), 128 + ((c \div 64) % 64), 128 + (c % 64)>>
    ELSE <<240 + (c \div 262144), 128 + ((c \div 4096) % 64),
           128 + ((c \div 64) % 64), 128 + (c % 64)>>

\* the parts of a sequence of sequences, joined in order (halving keeps the
\* evaluation shallow on a whole file)
RECURSIVE Join(_, _, _)
Join(parts, lo, hi) ==
    IF lo > hi THEN <<>>
    ELSE IF lo = hi THEN parts[lo]
    ELSE LET mid == (lo + hi) \div 2
         IN  Join(parts, lo, mid) \o Join(parts, mid + 1, hi)

Utf8Encode(s) == Join([i \in 1..Len(s) |-> Utf8Char(s[i])], 1, Len(s))

IsCont(b, i) == i >= 1 /\ i <= Len(b) /\ b[i] >= 128 /\ b[i] <= 191

\* the length of the sequence a first byte announces, 0 for a byte that
\* cannot start one
LeadLen(x) ==
    IF x < 128 THEN 1
    ELSE IF x >= 194 /\ x <= 223 THEN 2
    ELSE IF x >= 224 /\ x <= 239 THEN 3
    ELSE IF x >= 240 /\ x <= 244 THEN 4
    ELSE 0

\* the sequence starting at i is well formed (no overlong form, no surrogate,
\* nothing above U+10FFFF)
WellFormedAt(b, i) ==
    /\ LeadLen(b[i]) > 0
    /\ \A k \in 1..(LeadLen(b[i]) - 1) : IsCont(b, i + k)
    /\ (b[i] = 224 => b[i + 1] >= 160)
    /\ (b[i] = 237 => b[i + 1] <= 159)
    /\ (b[i] = 240 => b[i + 1] >= 144)
    /\ (b[i] = 244 => b[i + 1] <= 143)

\* the continuation byte at i belongs to a sequence started before it
Continues(b, i) ==
    \E k \in 1..3 :
        /\ i - k >= 1
        /\ LeadLen(b[i - k]) > k
        /\ \A m \in 1..(k - 1) : IsCont(b, i - m)

CodePointAt(b, i) ==
    CASE LeadLen(b[i]) = 1 -> b[i]
      [] LeadLen(b[i]) = 2 -> (b[i] - 192) * 64 + (b[i + 1] - 128)
      [] LeadLen(b[i]) = 3 ->
            (b[i] - 224) * 4096 + (b[i + 1] - 128) * 64 + (b[i + 2] - 128)
      [] LeadLen(b[i]) = 4 ->
            (b[i] - 240) * 262144 + (b[i + 1] - 128) * 4096
            + (b[i + 2] - 128) * 64 + (b[i + 3] - 128)

\* the code points of the sequences that start at the positions `starts`
CodePoints(b, starts) == [k \in 1..Len(starts) |-> CodePointAt(b, starts[k])]

\* the file opened without encoding="utf-8" where the default is Latin-1
Utf8Decode_Latin1(b) == [ok |-> TRUE, s |-> b]

\* the strict decoder: [ok, s]; not ok is a UnicodeDecodeError
Utf8Decode(b) ==
    IF \A i \in 1..Len(b) :
            IF IsCont(b, i) THEN Continues(b, i) ELSE WellFormedAt(b, i)
    THEN [ok |-> TRUE,
          s |-> CodePoints(b, SelectSeq([i \in 1..Len(b) |-> i],
                                        LAMBDA i : ~IsCont(b, i)))]
    ELSE [ok |-> FALSE, s |-> <<>>]

-----------------------------------------------------------------------------
(* json.dump(tasks, f, indent=2, ensure_ascii=False) *)

HexDigit(n) == IF n < 10 THEN 48 + n ELSE 87 + n

\* one character inside a JSON string (ensure_ascii=False: only the quote,
\* the backslash and the control characters are escaped)
EscapeChar(c) ==
    CASE c = 34 -> <<92, 34>>
      [] c = 92 -> <<92, 92>>
      [] c = 10 -> <<92, 110>>
      [] c = 13 -> <<92, 114>>
      [] c = 9 -> <<92, 116>>
      [] c = 8 -> <<92, 98>>
      [] c = 12 -> <<92, 102>>
      [] OTHER ->
            IF c < 32 THEN <<92, 117, 48, 48, HexDigit(c \div 16), HexDigit(c % 16)>>
            ELSE <<c>>

RECURSIVE EscapeFrom(_, _)
EscapeFrom(s, i) ==
    IF i > Len(s) THEN <<>> ELSE EscapeChar(s[i]) \o EscapeFrom(s, i + 1)

JsonString(s) == <<34>> \o EscapeFrom(s, 1) \o <<34>>

RECURSIVE Spaces(_)
Spaces(n) == IF n = 0 THEN <<>> ELSE <<32>> \o Spaces(n - 1)

\* the line break and indentation json writes at nesting depth `level`
NewlineIndent(level) == <<10>> \o Spaces(2 * level)

RECURSIVE JsonEncode(_, _), JsonEncodeItems(_, _, _)
JsonEncode(v, level) ==
    CASE v.t = "None" -> T_null
      [] v.t = "bool" -> IF v.n = 1 THEN T_true ELSE T_false
      [] v.t = "int" -> IntStr(v.n)
      [] v.t = "str" -> JsonString(v.s)
      [] v.t = "item" -> JsonString(v.s) \o <<58, 32>> \o JsonEncode(v.items[1], level)
      [] v.t = "list" ->
            IF v.items = <<>> THEN <<91, 93>>
            ELSE <<91>> \o JsonEncodeItems(v.items, 1, level + 1)
                 \o NewlineIndent(level) \o <<93>>
      [] v.t = "dict" ->
            IF v.items = <<>> THEN <<123, 125>>
            ELSE <<123>> \o JsonEncodeItems(v.items, 1, level + 1)
                 \o NewlineIndent(level) \o <<125>>

JsonEncodeItems(items, i, level) ==
    IF i > Len(items) THEN <<>>
    ELSE (IF i > 1 THEN <<44>> ELSE <<>>) \o NewlineIndent(level)
         \o JsonEncode(items[i], level) \o JsonEncodeItems(items, i + 1, level)

JsonDumps(v) == JsonEncode(v, 0)

-----------------------------------------------------------------------------
(* json.load(f): the decoder.  A result is [ok, v, i]: the value and the    *)
(* position after it; not ok is a json.JSONDecodeError.                     *)

ParseFail == [ok |-> FALSE, v |-> PyNone, i |-> 0]
ParseOk(v, i) == [ok |-> TRUE, v |-> v, i |-> i]

Whitespace == {32, 9, 10, 13}
Digits == 48..57

At(s, i, c) == i <= Len(s) /\ s[i] = c

RECURSIVE SkipWs(_, _)
SkipWs(s, i) == IF i <= Len(s) /\ s[i] \in Whitespace THEN SkipWs(s, i + 1) ELSE i

HexValue(c) ==
    IF c \in 48..57 THEN c - 48
    ELSE IF c \in 97..102 THEN c - 87
    ELSE IF c \in 65..70 THEN c - 55
    ELSE 0 - 1

Unescape(c) ==
    CASE c = 34 -> 34
      [] c = 92 -> 92
      [] c = 47 -> 47
      [] c = 98 -> 8
      [] c = 102 -> 12
      [] c = 110 -> 10
      [] c = 114 -> 13
      [] c = 116 -> 9
      [] OTHER -> 0 - 1

\* the body of a string, from position i (after the opening quote)
RECURSIVE ScanString(_, _, _)
ScanString(s, i, acc) ==
    IF i > Len(s) THEN ParseFail
    ELSE IF s[i] = 34 THEN ParseOk(PyStr(acc), i + 1)
    ELSE IF s[i] = 92 THEN
        IF i + 1 > Len(s) THEN ParseFail
        ELSE IF s[i + 1] = 117 THEN
            IF i + 5 <= Len(s) /\ \A k \in 2..5 : HexValue(s[i + k]) >= 0 THEN
                ScanString(s, i + 6,
                    Append(acc, HexValue(s[i + 2]) * 4096 + HexValue(s[i + 3]) * 256
                                + HexValue(s[i + 4]) * 16 + HexValue(s[i + 5])))
            ELSE ParseFail
        ELSE IF Unescape(s[i + 1]) >= 0 THEN
            ScanString(s, i + 2, Append(acc, Unescape(s[i + 1])))
        ELSE ParseFail
    ELSE IF s[i] < 32 THEN ParseFail
    ELSE ScanString(s, i + 1, Append(acc, s[i]))

RECURSIVE ScanDigits(_, _, _)
ScanDigits(s, i, n) ==
    IF i <= Len(s) /\ s[i] \in Digits THEN ScanDigits(s, i + 1, 10 * n + (s[i] - 48))
    ELSE ParseOk(PyInt(n), i)

\* 0|[1-9][0-9]*
ScanNat(s, i) ==
    IF At(s, i, 48) THEN ParseOk(PyInt(0), i + 1)
    ELSE IF i <= Len(s) /\ s[i] \in Digits THEN ScanDigits(s, i, 0)
    ELSE ParseFail

Negated(r) == IF r.ok THEN ParseOk(PyInt(0 - r.v.n), r.i) ELSE r

\* -?(0|[1-9][0-9]*)
ScanNumber(s, i) == IF At(s, i, 45) THEN Negated(ScanNat(s, i + 1)) ELSE ScanNat(s, i)

Literal(s, i, word) ==
    i + Len(word) - 1 <= Len(s) /\ \A k \in 1..Len(word) : s[i + k - 1] = word[k]

RECURSIVE ParseValue(_, _), ParseArray(_, _, _), ParseObject(_, _, _)

\* after the element r of an array: j is the position of what follows it
ArrayRest(s, j, acc) ==
    IF At(s, j, 93) THEN ParseOk(PyList(acc), j + 1)
    ELSE IF At(s, j, 44) THEN ParseArray(s, SkipWs(s, j + 1), acc)
    ELSE ParseFail

ArrayElement(s, r, acc) ==
    IF r.ok THEN ArrayRest(s, SkipWs(s, r.i), Append(acc, r.v)) ELSE ParseFail

\* the elements of an array, from the position of an element
ParseArray(s, i, acc) == ArrayElement(s, ParseValue(s, i), acc)

\* after "[" and white space
ArrayBody(s, j) ==
    IF At(s, j, 93) THEN ParseOk(PyList(<<>>), j + 1) ELSE ParseArray(s, j, <<>>)

\* after the member of an object: j is the position of what follows it
ObjectRest(s, j, d) ==
    IF At(s, j, 125) THEN ParseOk(d, j + 1)
    ELSE IF At(s, j, 44) THEN ParseObject(s, SkipWs(s, j + 1), d)
    ELSE ParseFail

\* a later member with the same key replaces the value of the earlier one
ObjectValue(s, key, r, d) ==
    IF r.ok THEN ObjectRest(s, SkipWs(s, r.i), DictSet(d, key, r.v)) ELSE ParseFail

ObjectColon(s, key, c, d) ==
    IF At(s, c, 58) THEN ObjectValue(s, key, ParseValue(s, SkipWs(s, c + 1)), d)
    ELSE ParseFail

ObjectKey(s, k, d) ==
    IF k.ok THEN ObjectColon(s, k.v.s, SkipWs(s, k.i), d) ELSE ParseFail

\* the members of an object, from the position of a key
ParseObject(s, i, d) ==
    IF At(s, i, 34) THEN ObjectKey(s, ScanString(s, i + 1, <<>>), d) ELSE ParseFail

\* after "{" and white space
ObjectBody(s, j) ==
    IF At(s, j, 125) THEN ParseOk(PyDict(<<>>), j + 1)
    ELSE ParseObject(s, j, PyDict(<<>>))

ParseValue(s, i) ==
    IF i > Len(s) THEN ParseFail
    ELSE IF s[i] = 34 THEN ScanString(s, i + 1, <<>>)
    ELSE IF s[i] = 123 THEN ObjectBody(s, SkipWs(s, i + 1))
    ELSE IF s[i] = 91 THEN ArrayBody(s, SkipWs(s, i + 1))
    ELSE IF Literal(s, i, T_null) THEN ParseOk(PyNone, i + 4)
    ELSE IF Literal(s, i, T_true) THEN ParseOk(PyBool(TRUE), i + 4)
    ELSE IF Literal(s, i, T_false) THEN ParseOk(PyBool(FALSE), i + 5)
    ELSE IF s[i] = 45 \/ s[i] \in Digits THEN ScanNumber(s, i)
    ELSE ParseFail

\* one value, white space around it, nothing else
Document(s, r) == IF r.ok /\ SkipWs(s, r.i) = Len(s) + 1 THEN r ELSE ParseFail

\* json.loads
JsonLoads(s) == Document(s, ParseValue(s, SkipWs(s, 1)))

-----------------------------------------------------------------------------
(* The tasks file and the two functions that touch it *)

\* writable: open(path, "w") is permitted at this location
NoFile == [exists |-> FALSE, bytes |-> <<>>, writable |-> TRUE]
FileOf(b) == [exists |-> TRUE, bytes |-> b, writable |-> TRUE]

\* the same location with writing not permitted
ReadOnly(f) == [f EXCEPT !.writable = FALSE]

\* json.load(f) on the decoded text: a JSONDecodeError gives []
Parsed(doc) ==
    IF doc.ok THEN [exc |-> "none", v |-> doc.v]
    ELSE [exc |-> "none", v |-> PyList(<<>>)]

\* f.read() of the file opened with encoding="utf-8"
Decoded(text) ==
    IF text.ok THEN Parsed(JsonLoads(text.s))
    ELSE [exc |-> "UnicodeDecodeError", v |-> PyNone]

\* open() reached without the os.path.exists test
load_tasks_NoExistsTest(f) ==
    IF ~f.exists THEN [exc |-> "FileNotFoundError", v |-> PyNone]
    ELSE Decoded(Utf8Decode(f.bytes))

\* load_tasks(path): [exc, v], the exception raised ("none" if it returned)
\* and the value returned.  Only json.JSONDecodeError is caught.
load_tasks(f) ==
    IF ~f.exists THEN [exc |-> "none", v |-> PyList(<<>>)]
    ELSE Decoded(Utf8Decode(f.bytes))

\* the file that open(path, "w") and json.dump(tasks, f, ...) leave
Dumped(tasks) == FileOf(Utf8Encode(JsonDumps(tasks)))

\* save_tasks(tasks, path) on the location f: [exc, file].  open raises
\* where writing is not permitted, before anything is truncated.
save_tasks(tasks, f) ==
    IF f.writable THEN [exc |-> "none", file |-> Dumped(tasks)]
    ELSE [exc |-> "PermissionError", file |-> f]

-----------------------------------------------------------------------------
(* What the operations print *)

M_Added == <<65, 100, 100, 101, 100, 32, 116, 97, 115, 107, 32>>
M_Marked == <<77, 97, 114, 107, 101, 100, 32, 116, 97, 115, 107, 32>>
M_complete == <<32, 99, 111, 109, 112, 108, 101, 116, 101, 46>>
M_NoTask == <<78, 111, 32, 116, 97, 115, 107, 32, 102, 111, 117, 110, 100, 32,
              119, 105, 116, 104, 32, 105, 100, 32>>
M_NoTasks == <<78, 111, 32, 116, 97, 115, 107, 115, 32, 102, 111, 117, 110, 100, 46>>
M_Check == <<10003>>

\* str(v), as an f-string formats a value
Str(v) ==
    CASE v.t = "None" -> <<78, 111, 110, 101>>
      [] v.t = "bool" -> IF v.n = 1 THEN <<84, 114, 117, 101>>
                                    ELSE <<70, 97, 108, 115, 101>>
      [] v.t = "int" -> IntStr(v.n)
      [] v.t = "str" -> v.s

AddedLine(id, title) == M_Added \o IntStr(id) \o <<58, 32>> \o title
MarkedLine(id) == M_Marked \o IntStr(id) \o M_complete
NotFoundLine(id) == M_NoTask \o IntStr(id) \o <<46>>

\* the marker printed as " " whatever done is
TaskLine_Blank(t) ==
    <<91, 32, 93, 32>> \o Str(DictGet(t, K_id, PyNone))
    \o <<58, 32>> \o Str(DictGet(t, K_title, PyNone))
    \o <<32, 45, 32>> \o Str(DictGet(t, K_description, PyStr(<<>>)))

\* the line list_tasks prints for task t
TaskLine(t) ==
    <<91>> \o (IF Truthy(DictGet(t, K_done, PyNone)) THEN M_Check ELSE <<32>>)
    \o <<93, 32>> \o Str(DictGet(t, K_id, PyNone))
    \o <<58, 32>> \o Str(DictGet(t, K_title, PyNone))
    \o <<32, 45, 32>> \o Str(DictGet(t, K_description, PyStr(<<>>)))

-----------------------------------------------------------------------------
(* The operations.  Each yields [file, out, exc, assigned, saves]: the file *)
(* it leaves, the lines it printed, the exception it raised, the id it gave *)
(* (add_task) and the number of save_tasks calls it made.                   *)

Outcome(f, o, e, id, n) ==
    [file |-> f, out |-> o, exc |-> e, assigned |-> id, saves |-> n]

\* `for t in v`: [ok, items]; not ok is the TypeError of a value that is
\* not iterable
Iter(v) ==
    CASE v.t = "list" -> [ok |-> TRUE, items |-> v.items]
      [] v.t = "dict" ->
            [ok |-> TRUE, items |-> [i \in 1..Len(v.items) |-> PyStr(v.items[i].s)]]
      [] v.t = "str" -> [ok |-> TRUE, items |-> [i \in 1..Len(v.s) |-> PyStr(<<v.s[i]>>)]]
      [] OTHER -> [ok |-> FALSE, items |-> <<>>]

\* datetime.utcnow().isoformat(), for the instant `us` microseconds into
\* one fixed second: the fraction is left out when it is zero
IsoFormat(us) ==
    <<50, 48, 50, 54, 45, 48, 50, 45, 48, 57, 84, 49, 48, 58, 48, 48, 58, 48, 48>>
    \o (IF us = 0 THEN <<>>
        ELSE <<46>> \o [k \in 1..(6 - Len(IntStr(us))) |-> 48] \o IntStr(us))

\* the dict add_task builds
Task(id, title, desc, created_at, done) ==
    PyDict(<<PyItem(K_id, PyInt(id)),
             PyItem(K_title, PyStr(title)),
             PyItem(K_description, PyStr(desc)),
             PyItem(K_created_at, PyStr(created_at)),
             PyItem(K_done, PyBool(done))>>)

\* a < b or a > b is defined (numbers with numbers, text with text)
Comparable(a, b) ==
    (IsNumber(a) /\ IsNumber(b)) \/ (a.t = "str" /\ b.t = "str")

\* t.get("id", 0)
IdOf(t) == DictGet(t, K_id, PyInt(0))

\* what max keeps of the new value x and the largest so far m
Larger(x, m) == IF IsNumber(x) /\ x.n > m.n THEN x ELSE m

\* max((t.get("id", 0) for t in tasks), default=0) + 1 over the elements
\* from position i on, m being the largest so far: [exc, id]
RECURSIVE NextIdFrom(_, _, _)
NextIdFrom(elems, i, m) ==
    IF i > Len(elems) THEN
        IF IsNumber(m) THEN [exc |-> "none", id |-> m.n + 1]
        ELSE [exc |-> "TypeError", id |-> 0]
    ELSE IF elems[i].t # "dict" THEN [exc |-> "AttributeError", id |-> 0]
    ELSE IF i = 1 THEN NextIdFrom(elems, 2, IdOf(elems[1]))
    ELSE IF ~Comparable(IdOf(elems[i]), m) THEN [exc |-> "TypeError", id |-> 0]
    ELSE NextIdFrom(elems, i + 1, Larger(IdOf(elems[i]), m))

\* default=1 in place of default=0
NextId_DefaultOne(elems) ==
    IF elems = <<>> THEN [exc |-> "none", id |-> 2] ELSE NextIdFrom(elems, 1, PyInt(0))

\* the + 1 left out
NextId_NoIncrement(elems) ==
    [exc |-> NextIdFrom(elems, 1, PyInt(0)).exc, id |-> NextIdFrom(elems, 1, PyInt(0)).id - 1]

\* len(tasks) + 1 in place of max(...) + 1
NextId_Count(elems) == [exc |-> NextIdFrom(elems, 1, PyInt(0)).exc, id |-> Len(elems) + 1]

NextId(elems) == NextIdFrom(elems, 1, PyInt(0))

\* save_tasks wrapped in try/except: the line is printed all the same
AddSaved_Swallows(saved, id, title) ==
    Outcome(saved.file, <<AddedLine(id, title)>>, "none", id, 1)

\* save_tasks returned or raised; the print after it
AddSaved(saved, id, title) ==
    IF saved.exc # "none" THEN Outcome(saved.file, <<>>, saved.exc, 0, 1)
    ELSE Outcome(saved.file, <<AddedLine(id, title)>>, "none", id, 1)

\* tasks.insert(0, task) in place of tasks.append(task)
AddWithId_Prepend(f, tasks, next, title, desc, now) ==
    IF next.exc # "none" THEN Outcome(f, <<>>, next.exc, 0, 0)
    ELSE IF tasks.t # "list" THEN Outcome(f, <<>>, "AttributeError", 0, 0)
    ELSE Outcome(Dumped(PyList(
                    <<Task(next.id, title, desc, IsoFormat(now) \o <<90>>, FALSE)>>
                    \o tasks.items)),
                 <<AddedLine(next.id, title)>>, "none", next.id, 1)

\* the task dict, tasks.append(task), save_tasks and the print
AddWithId(f, tasks, next, title, desc, now) ==
    IF next.exc # "none" THEN Outcome(f, <<>>, next.exc, 0, 0)
    ELSE IF tasks.t # "list" THEN Outcome(f, <<>>, "AttributeError", 0, 0)
    ELSE AddSaved(save_tasks(PyList(Append(tasks.items,
                      Task(next.id, title, desc, IsoFormat(now) \o <<90>>, FALSE))), f),
                  next.id, title)

AddIter(f, tasks, it, title, desc, now) ==
    IF ~it.ok THEN Outcome(f, <<>>, "TypeError", 0, 0)
    ELSE AddWithId(f, tasks, NextId(it.items), title, desc, now)

\* load_tasks called again just before the task is built
AddLoaded_Reloads(f, loaded, title, desc, now) ==
    IF load_tasks(f).exc # "none" THEN Outcome(f, <<>>, load_tasks(f).exc, 0, 0)
    ELSE AddIter(f, load_tasks(f).v, Iter(load_tasks(f).v), title, desc, now)

AddLoaded(f, loaded, title, desc, now) ==
    IF loaded.exc # "none" THEN Outcome(f, <<>>, loaded.exc, 0, 0)
    ELSE AddIter(f, loaded.v, Iter(loaded.v), title, desc, now)

add_task(f, title, desc, now) == AddLoaded(f, load_tasks(f), title, desc, now)

\* the lines printed for the elements from position i on, and how the loop ends
RECURSIVE ListFrom(_, _, _)
ListFrom(elems, i, lines) ==
    IF i > Len(elems) THEN [exc |-> "none", out |-> lines]
    ELSE IF elems[i].t # "dict" THEN [exc |-> "AttributeError", out |-> lines]
    ELSE ListFrom(elems, i + 1, Append(lines, TaskLine(elems[i])))

Listed(f, r) == Outcome(f, r.out, r.exc, 0, 0)

ListIter(f, it) ==
    IF ~it.ok THEN Outcome(f, <<>>, "TypeError", 0, 0)
    ELSE Listed(f, ListFrom(it.items, 1, <<>>))

\* save_tasks(tasks) run after the listing
ListLoaded_Saves(f, loaded) ==
    IF loaded.exc # "none" THEN Outcome(f, <<>>, loaded.exc, 0, 0)
    ELSE IF ~Truthy(loaded.v) THEN Outcome(Dumped(loaded.v), <<M_NoTasks>>, "none", 0, 1)
    ELSE [ListIter(f, Iter(loaded.v)) EXCEPT !.file = Dumped(loaded.v), !.saves = 1]

ListLoaded(f, loaded) ==
    IF loaded.exc # "none" THEN Outcome(f, <<>>, loaded.exc, 0, 0)
    ELSE IF ~Truthy(loaded.v) THEN Outcome(f, <<M_NoTasks>>, "none", 0, 0)
    ELSE ListIter(f, Iter(loaded.v))

list_tasks(f) == ListLoaded(f, load_tasks(f))

\* t.get("id") is task_id: CPython shares the int objects of -5..256 only
IdMatches_Is(t, task_id) ==
    PyEq(DictGet(t, K_id, PyNone), PyInt(task_id)) /\ task_id \in (0 - 5)..256

\* t.get("id") == task_id
IdMatches(t, task_id) == PyEq(DictGet(t, K_id, PyNone), PyInt(task_id))

\* the loop without its return: the last task that matches is the one kept
FindFrom_Last(elems, i, task_id) ==
    IF \E j \in i..Len(elems) : elems[j].t # "dict"
    THEN [exc |-> "AttributeError", hit |-> 0]
    ELSE IF \E j \in i..Len(elems) : IdMatches(elems[j], task_id)
    THEN [exc |-> "none",
          hit |-> CHOOSE j \in i..Len(elems) :
                      /\ IdMatches(elems[j], task_id)
                      /\ \A k \in (j + 1)..Len(elems) : ~IdMatches(elems[k], task_id)]
    ELSE [exc |-> "none", hit |-> 0]

\* the loop of complete_task from position i on: [exc, hit], hit being the
\* position of the first task that matches, 0 if the loop ends without one
RECURSIVE FindFrom(_, _, _)
FindFrom(elems, i, task_id) ==
    IF i > Len(elems) THEN [exc |-> "none", hit |-> 0]
    ELSE IF elems[i].t # "dict" THEN [exc |-> "AttributeError", hit |-> 0]
    ELSE IF IdMatches(elems[i], task_id) THEN [exc |-> "none", hit |-> i]
    ELSE FindFrom(elems, i + 1, task_id)

\* t["done"] = True on every task
MarkDone_All(tasks, hit) ==
    PyList([i \in 1..Len(tasks.items) |-> DictSet(tasks.items[i], K_done, PyBool(TRUE))])

\* t["done"] = not t["done"]
MarkDone_Toggle(tasks, hit) ==
    PyList([tasks.items EXCEPT ![hit] =
        DictSet(tasks.items[hit], K_done,
                PyBool(~Truthy(DictGet(tasks.items[hit], K_done, PyNone))))])

\* done set on the task at position hit and cleared on every other task
MarkDone_Only(tasks, hit) ==
    PyList([i \in 1..Len(tasks.items) |->
                DictSet(tasks.items[i], K_done, PyBool(i = hit))])

\* t["done"] = True on the task at position hit
MarkDone(tasks, hit) ==
    PyList([tasks.items EXCEPT ![hit] = DictSet(tasks.items[hit], K_done, PyBool(TRUE))])

\* save_tasks returned or raised; the print and the return after it
Marked(saved, task_id) ==
    IF saved.exc # "none" THEN Outcome(saved.file, <<>>, saved.exc, 0, 1)
    ELSE Outcome(saved.file, <<MarkedLine(task_id)>>, "none", 0, 1)

\* the matched task taken out of the collection in place of being marked
Found_Removes(f, tasks, hit, task_id) ==
    Outcome(Dumped(PyList(SubSeq(tasks.items, 1, hit - 1)
                              \o SubSeq(tasks.items, hit + 1, Len(tasks.items)))),
            <<MarkedLine(task_id)>>, "none", 0, 1)

\* the print after save_tasks left out
Found_Silent(f, tasks, hit, task_id) ==
    Outcome(Dumped(MarkDone(tasks, hit)), <<>>, "none", 0, 1)

\* the task at position hit matched: mark, save, print, return
Found(f, tasks, hit, task_id) ==
    Marked(save_tasks(MarkDone(tasks, hit), f), task_id)

\* save_tasks run before the print also when nothing matched
NotFound_Saves(f, tasks, task_id) ==
    Outcome(Dumped(tasks), <<NotFoundLine(task_id)>>, "none", 0, 1)

\* the loop ended without a match: print
NotFound(f, tasks, task_id) == Outcome(f, <<NotFoundLine(task_id)>>, "none", 0, 0)

CompleteFound(f, tasks, found, task_id) ==
    IF found.exc # "none" THEN Outcome(f, <<>>, found.exc, 0, 0)
    ELSE IF found.hit = 0 THEN NotFound(f, tasks, task_id)
    ELSE Found(f, tasks, found.hit, task_id)

CompleteIter(f, tasks, it, task_id) ==
    IF ~it.ok THEN Outcome(f, <<>>, "TypeError", 0, 0)
    ELSE CompleteFound(f, tasks, FindFrom(it.items, 1, task_id), task_id)

CompleteLoaded(f, loaded, task_id) ==
    IF loaded.exc # "none" THEN Outcome(f, <<>>, loaded.exc, 0, 0)
    ELSE CompleteIter(f, loaded.v, Iter(loaded.v), task_id)

complete_task(f, task_id) == CompleteLoaded(f, load_tasks(f), task_id)

-----------------------------------------------------------------------------
(* Inputs and bounds *)

\* add_task calls per run
MaxAdds == 2

\* tasks in a collection handed to save_tasks directly
MaxLen == 2

\* Texts used below: plain ASCII; e-acute and a quote; a hot-beverage sign,
\* a backslash and a line feed; the empty text

\* what add_task is called with, and the clock reading (in microseconds) it
\* then gets
AddInputs ==
    { [title |-> <<97>>, desc |-> <<>>, now |-> 0],
      [title |-> <<233, 34>>, desc |-> <<9749, 92, 10>>, now |-> 250000],
      [title |-> <<>>, desc |-> <<97>>, now |-> 0] }

\* ids asked of complete_task
CompleteIds == {1, 2, 300}

Stamp == IsoFormat(0) \o <<90>>

\* the bytes "invalid json {"
InvalidJson == <<105, 110, 118, 97, 108, 105, 100, 32, 106, 115, 111, 110, 32, 123>>

\* a JSON document that is not a list: {}
EmptyObject == <<123, 125>>

\* a byte that is not UTF-8
NotUtf8 == <<255>>

\* one task with id 300, written on a single line by another tool
LargeIdLine ==
    <<91, 123, 34, 105, 100, 34, 58, 32, 51, 48, 48, 44, 32, 34, 116, 105, 116,
      108, 101, 34, 58, 32, 34, 76, 97, 114, 103, 101, 32, 73, 68, 32, 116, 97,
      115, 107, 34, 44, 32, 34, 100, 101, 115, 99, 114, 105, 112, 116, 105, 111,
      110, 34, 58, 32, 34, 34, 44, 32, 34, 99, 114, 101, 97, 116, 101, 100, 95,
      97, 116, 34, 58, 32, 34, 50, 48, 50, 54, 45, 48, 50, 45, 48, 57, 84, 49,
      48, 58, 48, 48, 58, 48, 48, 90, 34, 44, 32, 34, 100, 111, 110, 101, 34,
      58, 32, 102, 97, 108, 115, 101, 125, 93>>

\* ids with a gap and out of order, the second task done
GapTasks ==
    PyList(<<Task(4, <<97>>, <<>>, Stamp, FALSE),
             Task(1, <<233, 34>>, <<9749, 92, 10>>, Stamp, TRUE)>>)

\* two tasks with the same id
DuplicateTasks ==
    PyList(<<Task(1, <<97>>, <<>>, Stamp, FALSE),
             Task(1, <<233, 34>>, <<>>, Stamp, FALSE)>>)

\* stores that hold no task: no file, [] as save_tasks writes it, a file of
\* no bytes
EmptyStores == {NoFile, Dumped(PyList(<<>>)), FileOf(<<>>)}

OtherStores ==
    { FileOf(InvalidJson), FileOf(EmptyObject), FileOf(NotUtf8),
      FileOf(LargeIdLine), Dumped(GapTasks), Dumped(DuplicateTasks) }

\* tasks and collections handed to save_tasks directly
SampleTasks ==
    { Task(1, <<97>>, <<>>, Stamp, FALSE),
      Task(300, <<233, 34>>, <<9749, 92, 10>>, Stamp, TRUE),
      Task(2, <<>>, <<97>>, Stamp, FALSE) }

Collections ==
    { PyList(items) : items \in UNION { [1..n -> SampleTasks] : n \in 0..MaxLen } }

-----------------------------------------------------------------------------
(* The state machine *)

Op(name, id, title, desc) == [name |-> name, id |-> id, title |-> title, desc |-> desc]

\* the processes that share the file
Procs == {1, 2}

\* a process that has not started its operation
Idle ==
    [pc |-> "idle", call |-> Op("init", 0, <<>>, <<>>), now |-> 0,
     loaded |-> [exc |-> "none", v |-> PyNone], after |-> 0, order |-> 0, assigned |-> 0]

Start(f, c) ==
    /\ file = f
    /\ pre = f
    /\ stored = load_tasks(f)
    /\ before = load_tasks(f)
    /\ op = Op("init", 0, <<>>, <<>>)
    /\ out = <<>>
    /\ exc = "none"
    /\ ret = PyNone
    /\ arg = c
    /\ assigned = 0
    /\ saves = 0
    /\ nAdds = 0
    /\ fromEmpty = (f \in EmptyStores)
    /\ procs = [p \in Procs |-> Idle]

Init == \E f \in EmptyStores \cup OtherStores : Start(f, PyNone)

\* an operation that returns None ran with outcome r
Ran(r) ==
    /\ pre' = file
    /\ before' = stored
    /\ file' = r.file
    /\ stored' = IF r.file = file THEN stored ELSE load_tasks(r.file)
    /\ out' = r.out
    /\ exc' = r.exc
    /\ assigned' = r.assigned
    /\ saves' = r.saves
    /\ ret' = PyNone
    /\ arg' = PyNone
    /\ UNCHANGED fromEmpty

AddTask ==
    /\ nAdds < MaxAdds
    /\ \E x \in AddInputs :
        /\ Ran(add_task(file, x.title, x.desc, x.now))
        /\ op' = Op("add", 0, x.title, x.desc)
        /\ nAdds' = IF exc' = "none" THEN nAdds + 1 ELSE nAdds
    /\ UNCHANGED procs

ListTasks ==
    /\ Ran(list_tasks(file))
    /\ op' = Op("list", 0, <<>>, <<>>)
    /\ UNCHANGED <<nAdds, procs>>

CompleteTask ==
    \E id \in CompleteIds :
        /\ Ran(complete_task(file, id))
        /\ op' = Op("complete", id, <<>>, <<>>)
        /\ UNCHANGED <<nAdds, procs>>

\* a caller runs load_tasks
Returned(r) == exc' = r.exc /\ ret' = r.v

LoadTasks ==
    /\ Returned(load_tasks(file))
    /\ pre' = file
    /\ before' = stored
    /\ op' = Op("load", 0, <<>>, <<>>)
    /\ out' = <<>>
    /\ assigned' = 0
    /\ saves' = 0
    /\ UNCHANGED <<file, stored, arg, nAdds, fromEmpty, procs>>

\* a caller runs save_tasks on its collection
Saved(r) ==
    /\ file' = r.file
    /\ stored' = IF r.file = file THEN stored ELSE load_tasks(r.file)
    /\ exc' = r.exc

SaveTasks ==
    /\ Saved(save_tasks(arg, file))
    /\ pre' = file
    /\ before' = stored
    /\ op' = Op("save", 0, <<>>, <<>>)
    /\ out' = <<>>
    /\ ret' = PyNone
    /\ assigned' = 0
    /\ saves' = 1
    /\ UNCHANGED <<arg, nAdds, fromEmpty, procs>>

\* the command line and its callers: operations one after another
Next == AddTask \/ ListTasks \/ CompleteTask

Spec == Init /\ [][Next]_vars

\* save_tasks and load_tasks called directly by a caller that holds a
\* collection, on a location that is missing or holds something
InitRT ==
    \E f \in EmptyStores \cup {FileOf(InvalidJson), FileOf(EmptyObject), FileOf(NotUtf8)},
       c \in Collections : Start(f, c)

NextRT == SaveTasks \/ LoadTasks

SpecRT == InitRT /\ [][NextRT]_vars

\* the operations, and save_tasks called directly, on a location where
\* writing is not permitted
InitRO == \E f \in EmptyStores \cup OtherStores, c \in Collections : Start(ReadOnly(f), c)

NextRO == AddTask \/ ListTasks \/ CompleteTask \/ SaveTasks

SpecRO == InitRO /\ [][NextRO]_vars

\* Two processes, each running one add_task or one complete_task on the
\* same file.  Nothing in the code orders them, so the load_tasks call of
\* one (line 36, line 64) and the rest of its function (the save_tasks
\* call and the print) may have steps of the other in between.
ParAdds == {x \in AddInputs : x.title # <<>>}
ParIds == {1, 2}
ParStores == {NoFile, Dumped(DuplicateTasks)}

\* how many processes have finished their operation
Finished == Cardinality({q \in Procs : procs[q].pc = "done"})

\* process p calls load_tasks for the operation `call`
Loads(p, call, now) ==
    /\ procs' = [procs EXCEPT ![p] =
                    [pc |-> "loaded", call |-> call, now |-> now,
                     loaded |-> load_tasks(file), after |-> Finished,
                     order |-> 0, assigned |-> 0]]
    /\ UNCHANGED <<file, pre, stored, before, op, out, exc, ret, arg, assigned, saves,
                   nAdds, fromEmpty>>

\* process p runs the rest of its function on what it loaded, with outcome r
Finishes(p, r) ==
    /\ Ran(r)
    /\ op' = procs[p].call
    /\ procs' = [procs EXCEPT ![p].pc = "done", ![p].order = Finished + 1,
                              ![p].assigned = r.assigned]
    /\ UNCHANGED nAdds

ParAddLoad(p) ==
    /\ procs[p].pc = "idle"
    /\ \E x \in ParAdds : Loads(p, Op("add", 0, x.title, x.desc), x.now)

ParAddSave(p) ==
    /\ procs[p].pc = "loaded"
    /\ procs[p].call.name = "add"
    /\ Finishes(p, AddLoaded(file, procs[p].loaded, procs[p].call.title,
                             procs[p].call.desc, procs[p].now))

ParCompleteLoad(p) ==
    /\ procs[p].pc = "idle"
    /\ \E id \in ParIds : Loads(p, Op("complete", id, <<>>, <<>>), 0)

ParCompleteSave(p) ==
    /\ procs[p].pc = "loaded"
    /\ procs[p].call.name = "complete"
    /\ Finishes(p, CompleteLoaded(file, procs[p].loaded, procs[p].call.id))

InitPar == \E f \in ParStores : Start(f, PyNone)

NextPar ==
    \E p \in Procs :
        ParAddLoad(p) \/ ParAddSave(p) \/ ParCompleteLoad(p) \/ ParCompleteSave(p)

SpecPar == InitPar /\ [][NextPar]_vars

-----------------------------------------------------------------------------
(* Reading a stored collection *)

\* load_tasks reads the store as a list of task dicts
IsTasks(view) ==
    /\ view.exc = "none"
    /\ view.v.t = "list"
    /\ \A i \in 1..Len(view.v.items) : view.v.items[i].t = "dict"

Count(view) == Len(view.v.items)
TaskAt(view, i) == view.v.items[i]
Field(view, i, k) == DictGet(view.v.items[i], k, PyNone)

\* the positions of the tasks whose id is the integer id
Holders(view, id) == {i \in 1..Count(view) : Field(view, i, K_id) = PyInt(id)}

HasId(view, id) == IsTasks(view) /\ Holders(view, id) # {}

\* the first task, in collection order, whose id is id
FirstHolder(view, id) ==
    CHOOSE i \in Holders(view, id) : \A j \in Holders(view, id) : i <= j

IdSet(view) == {Field(view, i, K_id).n : i \in 1..Count(view)}

Range(seq) == {seq[i] : i \in 1..Len(seq)}

MaxOf(S) == IF S = {} THEN 0 ELSE CHOOSE m \in S : \A x \in S : x <= m

Completed(id) == op.name = "complete" /\ op.id = id
Added == op.name = "add" /\ exc = "none"

-----------------------------------------------------------------------------
(* Claims *)

\* C1: from a missing or an empty store, the k-th add_task gets id k: after
\* k adds the stored ids are 1, 2, ..., k in this order, whatever the titles
\* and descriptions.
C1_AddsCountFromOne ==
    (fromEmpty /\ Added) =>
        /\ assigned = nAdds
        /\ IsTasks(stored)
        /\ Count(stored) = nAdds
        /\ \A i \in 1..nAdds : Field(stored, i, K_id) = PyInt(i)

\* two adds with the same title and description, from an empty store
C1_Witness ==
    /\ fromEmpty /\ Added /\ nAdds = 2 /\ assigned = 2
    /\ Field(stored, 1, K_title) = Field(stored, 2, K_title)
    /\ Field(stored, 1, K_description) = Field(stored, 2, K_description)

\* C2: in every state reached from an empty store by add_task, complete_task
\* and list_tasks, no two stored tasks have the same id.
C2_IdsUnique ==
    fromEmpty =>
        /\ IsTasks(stored)
        /\ \A i, j \in 1..Count(stored) :
              Field(stored, i, K_id) = Field(stored, j, K_id) => i = j

C2_Witness ==
    fromEmpty /\ Count(stored) = 2 /\ Completed(2) /\ saves = 1

\* C3: add_task gives the new task the largest stored id (0 for no task)
\* plus 1, also when the stored ids have gaps or are out of order; the new
\* id is none of the stored ones.
C3_NextIdIsMaxPlusOne ==
    (Added /\ IsTasks(before)) =>
        /\ assigned = MaxOf(IdSet(before)) + 1
        /\ assigned \notin IdSet(before)
        /\ Count(stored) = Count(before) + 1
        /\ Field(stored, Count(stored), K_id) = PyInt(assigned)

\* the stored ids were 4, 1: a gap, and not in increasing order
C3_Witness ==
    Added /\ IsTasks(before) /\ Count(before) = 2 /\ IdSet(before) = {1, 4}
    /\ Field(before, 1, K_id) = PyInt(4) /\ assigned = 5

\* C4: complete_task(id) on a store with no task of that id leaves the file
\* as it was, byte for byte, runs no save_tasks and prints
\* "No task found with id <id>."
C4_NotFoundLeavesFile ==
    (op.name = "complete" /\ IsTasks(before) /\ ~HasId(before, op.id)) =>
        /\ file = pre
        /\ saves = 0
        /\ exc = "none"
        /\ out = <<M_NoTask \o IntStr(op.id) \o <<46>>>>

\* id 1 asked of the store that holds only id 300, written on one line
C4_Witness ==
    /\ Completed(1) /\ IsTasks(before) /\ Count(before) = 1 /\ ~HasId(before, 1)
    /\ pre = FileOf(LargeIdLine) /\ file = pre

\* C5: complete_task(id) on a store with a task of that id sets the done of
\* that task (the first one, in collection order) to true and changes
\* nothing else: the same number of tasks in the same order, every other
\* task as it was, and the task itself with its id, title, description and
\* created_at as they were.
C5_CompleteChangesOnlyDone ==
    (op.name = "complete" /\ HasId(before, op.id)) =>
        /\ IsTasks(stored)
        /\ Count(stored) = Count(before)
        /\ \A i \in 1..Count(before) :
              IF i = FirstHolder(before, op.id)
              THEN /\ Field(stored, i, K_done) = PyBool(TRUE)
                   /\ \A k \in {K_id, K_title, K_description, K_created_at} :
                         Field(stored, i, k) = Field(before, i, k)
                   /\ Len(TaskAt(stored, i).items) = Len(TaskAt(before, i).items)
              ELSE TaskAt(stored, i) = TaskAt(before, i)

\* the second of two tasks completed, the first one not done
C5_Witness ==
    /\ op.name = "complete" /\ HasId(before, op.id)
    /\ Count(before) = 2 /\ FirstHolder(before, op.id) = 2
    /\ Field(before, 2, K_done) = PyBool(FALSE)
    /\ Field(stored, 1, K_done) = PyBool(FALSE)
    /\ Field(stored, 2, K_done) = PyBool(TRUE)

\* C6: complete_task(id) on a task that is done already leaves the stored
\* collection as it was and still prints "Marked task <id> complete.".
C6_CompleteIdempotent ==
    (/\ op.name = "complete" /\ HasId(before, op.id)
     /\ Field(before, FirstHolder(before, op.id), K_done) = PyBool(TRUE)) =>
        /\ stored = before
        /\ exc = "none"
        /\ out = <<M_Marked \o IntStr(op.id) \o M_complete>>

\* the second complete_task(1) in a row
C6_Witness ==
    /\ Completed(1) /\ HasId(before, 1)
    /\ Field(before, FirstHolder(before, 1), K_done) = PyBool(TRUE)
    /\ file = pre /\ saves = 1 /\ fromEmpty

C8_SaveLoadRoundTrip ==
    /\ op.name = "save" => stored = [exc |-> "none", v |-> arg]
    /\ (op.name = "load" /\ file = Dumped(arg)) => (exc = "none" /\ ret = arg)

\* two tasks loaded back, one with e-acute in its title and a hot-beverage
\* sign in its description
C8_Witness ==
    /\ op.name = "load" /\ file = Dumped(arg) /\ ret = arg
    /\ Len(arg.items) = 2
    /\ DictGet(arg.items[2], K_title, PyNone) = PyStr(<<233, 34>>)
    /\ DictGet(arg.items[2], K_description, PyNone) = PyStr(<<9749, 92, 10>>)

\* C9: load_tasks on a location that does not exist returns an empty list,
\* raises nothing and leaves the location missing.
C9_LoadMissing ==
    (op.name = "load" /\ ~pre.exists) =>
        (ret = PyList(<<>>) /\ exc = "none" /\ ~file.exists)

C9_Witness == op.name = "load" /\ ~pre.exists /\ ret = PyList(<<>>) /\ ~file.exists

\* the bytes are UTF-8 for a JSON list of objects
ParsesAsTasks(b) ==
    /\ Utf8Decode(b).ok
    /\ JsonLoads(Utf8Decode(b).s).ok
    /\ JsonLoads(Utf8Decode(b).s).v.t = "list"
    /\ \A x \in Range(JsonLoads(Utf8Decode(b).s).v.items) : x.t = "dict"

\* C10: load_tasks on a file whose contents do not parse as a list of task
\* records returns an empty list, raises nothing and leaves the file as it
\* was.
C10_UnparseableLoadsEmpty ==
    (op.name = "load" /\ pre.exists /\ ~ParsesAsTasks(pre.bytes)) =>
        (ret = PyList(<<>>) /\ exc = "none" /\ file = pre)

\* C11: add_task(title, description) on a stored collection returns, leaves
\* the collection one task longer, every task stored before as it was and
\* where it was, the new task last with the given title and description,
\* done false and a created_at text that ends in "Z", and prints
\* "Added task <id>: <title>" with the id of the task it stored.
C11_AddAppendsOne ==
    (op.name = "add" /\ IsTasks(before)) =>
        /\ exc = "none"
        /\ IsTasks(stored)
        /\ Count(stored) = Count(before) + 1
        /\ \A i \in 1..Count(before) : TaskAt(stored, i) = TaskAt(before, i)
        /\ Field(stored, Count(stored), K_title) = PyStr(op.title)
        /\ Field(stored, Count(stored), K_description) = PyStr(op.desc)
        /\ Field(stored, Count(stored), K_done) = PyBool(FALSE)
        /\ Field(stored, Count(stored), K_created_at).t = "str"
        /\ Len(Field(stored, Count(stored), K_created_at).s) > 1
        /\ Field(stored, Count(stored), K_created_at).s
              [Len(Field(stored, Count(stored), K_created_at).s)] = 90
        /\ Field(stored, Count(stored), K_id) = PyInt(assigned)
        /\ out = <<M_Added \o IntStr(assigned) \o <<58, 32>> \o op.title>>

\* a third task added after two, its title with e-acute and a quote
C11_Witness ==
    /\ op.name = "add" /\ IsTasks(before) /\ Count(before) = 2
    /\ Count(stored) = 3
    /\ TaskAt(stored, 1) = TaskAt(before, 1)
    /\ Field(stored, 3, K_title) = PyStr(<<233, 34>>)
    /\ Field(stored, 3, K_done) = PyBool(FALSE)

\* C12: list_tasks only reads: whatever the store (missing, empty, holding
\* tasks, holding something else), the file after the call is the file
\* before it, byte for byte, and the call runs no save_tasks.
C12_ListReadOnly ==
    op.name = "list" =>
        /\ file = pre
        /\ stored = before
        /\ saves = 0

\* two tasks listed, stored on one line each by add_task
C12_Witness ==
    /\ op.name = "list" /\ IsTasks(before) /\ Count(before) = 2
    /\ Len(out) = 2 /\ file = pre /\ file.exists /\ nAdds = 2

\* "[<check mark>] " for a task that is done, "[ ] " for one that is not
Marker(done) == IF done = PyBool(TRUE) THEN <<91, 10003, 93, 32>> ELSE <<91, 32, 93, 32>>

\* C13: list_tasks on a stored collection of n >= 1 tasks prints n lines,
\* the i-th being "[m] <id>: <title> - <description>" of the i-th stored
\* task with m the check mark if that task is done and a space if it is
\* not; on a collection of no task it prints "No tasks found." and nothing
\* else.
C13_ListShowsEachTask ==
    (op.name = "list" /\ IsTasks(before)) =>
        /\ exc = "none"
        /\ IF Count(before) = 0 THEN out = <<M_NoTasks>>
           ELSE /\ Len(out) = Count(before)
                /\ \A i \in 1..Count(before) :
                      out[i] = Marker(Field(before, i, K_done))
                               \o IntStr(Field(before, i, K_id).n) \o <<58, 32>>
                               \o Field(before, i, K_title).s \o <<32, 45, 32>>
                               \o Field(before, i, K_description).s

\* ids 4 and 1 listed in this order, the first not done, the second done
C13_Witness ==
    /\ op.name = "list" /\ IsTasks(before) /\ Count(before) = 2
    /\ Field(before, 1, K_done) = PyBool(FALSE)
    /\ Field(before, 2, K_done) = PyBool(TRUE)
    /\ Len(out) = 2
    /\ SubSeq(out[1], 1, 6) = <<91, 32, 93, 32, 52, 58>>
    /\ SubSeq(out[2], 1, 6) = <<91, 10003, 93, 32, 49, 58>>

\* C14: an add_task, list_tasks or complete_task call that returns has
\* printed exactly one line, whatever the store.
C14_OneLinePerOperation ==
    (op.name \in {"add", "list", "complete"} /\ exc = "none") => Len(out) = 1

\* C14, amended: an add_task or complete_task call that returns has printed
\* exactly one line; a list_tasks call that returns has printed one line
\* per stored task, and the one line "No tasks found." when no task is
\* stored.
C14_OneLineOrOnePerTask ==
    exc = "none" =>
        /\ op.name \in {"add", "complete"} => Len(out) = 1
        /\ op.name = "list" =>
              Len(out) = IF Count(before) = 0 THEN 1 ELSE Count(before)

\* list_tasks on three stored tasks
C14_Witness ==
    op.name = "list" /\ exc = "none" /\ Count(before) = 3 /\ Len(out) = 3

\* C15: done only goes from false to true: a task whose done is true in the
\* stored collection is still stored, at the same position and with done
\* true, after any add_task, complete_task or list_tasks call, hence in
\* every later state.
C15_DoneStaysTrue ==
    [][IsTasks(stored) =>
          \A i \in 1..Count(stored) :
              Field(stored, i, K_done) = PyBool(TRUE) =>
                  /\ IsTasks(stored')
                  /\ i <= Count(stored')
                  /\ Field(stored', i, K_done) = PyBool(TRUE)]_vars

\* task 1 was completed, then task 2 added and completed: both are done
C15_Witness ==
    /\ fromEmpty /\ Completed(2) /\ saves = 1 /\ Count(stored) = 2
    /\ Field(before, 1, K_done) = PyBool(TRUE)
    /\ Field(before, 2, K_done) = PyBool(FALSE)
    /\ Field(stored, 1, K_done) = PyBool(TRUE)
    /\ Field(stored, 2, K_done) = PyBool(TRUE)

\* C16: no call removes or rewrites a task: across every add_task,
\* complete_task and list_tasks call on a store that holds a list of tasks,
\* each task stored before is stored after at the same position with the
\* same id, title, description and created_at; the number of tasks never
\* goes down, and it goes up only by an add_task call, by exactly 1.
C16_TasksKept ==
    [][IsTasks(stored) =>
          /\ IsTasks(stored')
          /\ Count(stored') >= Count(stored)
          /\ \A i \in 1..Count(stored) :
                \A k \in {K_id, K_title, K_description, K_created_at} :
                    Field(stored', i, k) = Field(stored, i, k)
          /\ Count(stored') # Count(stored) =>
                (op'.name = "add" /\ Count(stored') = Count(stored) + 1)]_vars

\* the third of three tasks completed: the file changes, the three tasks
\* keep their created_at
C16_Witness ==
    /\ op.name = "complete" /\ saves = 1 /\ file # pre
    /\ Count(before) = 3 /\ Count(stored) = 3
    /\ Field(stored, 3, K_done) # Field(before, 3, K_done)
    /\ \A i \in 1..3 : Field(stored, i, K_created_at) = Field(before, i, K_created_at)

\* C17: when several stored tasks have the id asked for, complete_task(id)
\* sets done on the first of them, in collection order, and leaves every
\* other task, those with the same id included, as it was.
C17_FirstMatchOnly ==
    (op.name = "complete" /\ IsTasks(before)
     /\ Cardinality(Holders(before, op.id)) >= 2) =>
        /\ exc = "none"
        /\ saves = 1
        /\ Count(stored) = Count(before)
        /\ Field(stored, FirstHolder(before, op.id), K_done) = PyBool(TRUE)
        /\ \A j \in 1..Count(before) :
              j # FirstHolder(before, op.id) => TaskAt(stored, j) = TaskAt(before, j)

\* two tasks with id 1, neither done: complete_task(1) marks the first only
C17_Witness ==
    /\ Completed(1) /\ IsTasks(before) /\ Holders(before, 1) = {1, 2}
    /\ Field(before, 1, K_done) = PyBool(FALSE)
    /\ Field(before, 2, K_done) = PyBool(FALSE)
    /\ Field(stored, 1, K_done) = PyBool(TRUE)
    /\ Field(stored, 2, K_done) = PyBool(FALSE)

\* C18: where writing is not permitted save_tasks raises and leaves the
\* location as it was; an add_task call, and a complete_task call for an
\* id that is stored, reach save_tasks, raise the same error to their
\* caller and print nothing.
C18_SaveFailurePropagates ==
    ~pre.writable =>
        /\ op.name = "save" => (exc = "PermissionError" /\ file = pre)
        /\ ((op.name = "add" /\ IsTasks(before))
            \/ (op.name = "complete" /\ HasId(before, op.id))) =>
              /\ saves = 1
              /\ exc = "PermissionError"
              /\ out = <<>>
              /\ file = pre

\* add_task on two stored tasks that cannot be written
C18_Witness ==
    /\ op.name = "add" /\ ~pre.writable /\ IsTasks(before) /\ Count(before) = 2
    /\ saves = 1 /\ exc = "PermissionError" /\ out = <<>> /\ file = pre

\* the bytes are not a JSON text: not UTF-8, or text json.loads rejects
NotJson(b) == ~Utf8Decode(b).ok \/ ~JsonLoads(Utf8Decode(b).s).ok

\* C19: add_task on a file whose contents do not parse takes the store as
\* empty: it returns, gives the new task id 1 and replaces the contents of
\* the file by a collection of that one task, which load_tasks reads back
\* as a list of tasks.
C19_AddOverUnparseable ==
    (op.name = "add" /\ pre.exists /\ NotJson(pre.bytes)) =>
        /\ exc = "none"
        /\ assigned = 1
        /\ file # pre
        /\ IsTasks(stored)
        /\ Count(stored) = 1
        /\ Field(stored, 1, K_id) = PyInt(1)

\* process p ran `name` and finished as the k-th, having called load_tasks
\* when no process had finished yet
RacedAs(p, name, k) ==
    /\ procs[p].pc = "done" /\ procs[p].call.name = name
    /\ procs[p].order = k /\ procs[p].after = 0

\* C20: the operations of two processes are not atomic.  When two add_task
\* calls both load before either saves, both give their task the same id
\* and the file ends as what they loaded plus the task of the one that
\* saved last: the other task is lost.  When a complete_task call for a
\* stored id loads before an add_task of another process saves and saves
\* after it, the file ends without the added task.
C20_LostUpdate ==
    \A p, q \in Procs :
        /\ (RacedAs(p, "add", 1) /\ RacedAs(q, "add", 2) /\ IsTasks(procs[q].loaded)) =>
              /\ exc = "none"
              /\ procs[p].assigned = procs[q].assigned
              /\ IsTasks(stored)
              /\ Count(stored) = Count(procs[q].loaded) + 1
              /\ \A i \in 1..Count(procs[q].loaded) :
                    TaskAt(stored, i) = TaskAt(procs[q].loaded, i)
              /\ Field(stored, Count(stored), K_title) = PyStr(procs[q].call.title)
              /\ Field(stored, Count(stored), K_description) = PyStr(procs[q].call.desc)
        /\ (RacedAs(p, "add", 1) /\ RacedAs(q, "complete", 2)
            /\ HasId(procs[q].loaded, procs[q].call.id)) =>
              /\ exc = "none"
              /\ IsTasks(stored)
              /\ Count(stored) = Count(procs[q].loaded)
              /\ Count(before) = Count(procs[q].loaded) + 1
              /\ \A i \in 1..Count(stored) :
                    \A k \in {K_id, K_title, K_description, K_created_at} :
                        Field(stored, i, k) = Field(procs[q].loaded, i, k)

\* both processes added to a missing file: both were told id 1, and the file
\* holds one task, that of process 2
C20_Witness ==
    /\ RacedAs(1, "add", 1) /\ RacedAs(2, "add", 2)
    /\ procs[1].assigned = 1 /\ procs[2].assigned = 1
    /\ procs[1].call.title # procs[2].call.title
    /\ Count(procs[2].loaded) = 0
    /\ Count(stored) = 1
    /\ Field(stored, 1, K_title) = PyStr(procs[2].call.title)

====
